---- MODULE Spec2Model ----
(***************************************************************************)
(* A model of realm-js's JavaScriptCore binding layer:                     *)
(*   - src/src/js_collection.hpp : ObservableCollection, the bridge from   *)
(*     native collection notifications to JavaScript listeners;            *)
(*   - src/src/jsc/jsc_class.hpp : ObjectWrap and the js::wrap dispatch    *)
(*     trampolines.                                                        *)
(* Spec is the notification bridge, SpecWrap the object wrap.              *)
(***************************************************************************)
EXTENDS Integers, Sequences, FiniteSets, TLC

VARIABLES
    m_notification_tokens, \* js_collection.hpp:85, the (reference, token) pairs
    callbacks,             \* the callback the change source holds for each token ever made
    subscribed,            \* the tokens whose subscription is live at the change source
    inflight,              \* per token: <<cs>> when before(cs) ran and after(cs) did not, else <<>>
    hooks_run,             \* per token: the hooks invoked for its current change set
    removed,               \* references remove_listener returned for, not registered since
    crashed,               \* the process died in a call through a null function
    last,                  \* the operation that ran last and the JavaScript calls it made
    members,               \* the before/after/error members of the hook object
    protects,              \* per value: the Protected<> references this layer holds on it
    s_class,               \* jsc_class.hpp:46, which callbacks the class descriptor has
    js_class,              \* jsc_class.hpp:263/268, the lazily made class handles
    js_object,             \* the wrapped instance: its private pointer and native object
    wrap                   \* the last entry into ObjectWrap / a trampoline and its outcome

collVars == <<m_notification_tokens, callbacks, subscribed, inflight, hooks_run,
              removed, crashed, last, members, protects>>
wrapVars == <<s_class, js_class, js_object, wrap>>
vars == <<m_notification_tokens, callbacks, subscribed, inflight, hooks_run,
          removed, crashed, last, members, protects, s_class, js_class, js_object, wrap>>

(***************************************************************************)
(* Bounds                                                                  *)
(***************************************************************************)
\* registrations made over one run (token ids are 1..MaxTokens)
MaxTokens == 3
\* registrations made while the hook object's members change
MaxHooked == 1

(***************************************************************************)
(* JavaScript values                                                       *)
(***************************************************************************)
Undefined == "undefined"
Null == "null"            \* an empty Protected<FunctionType>
None == "none"
Instance == "collection"  \* the observable collection instance, `this_object`
Fns == {"f"}              \* the function passed to add_listener
HookFns == {"h.before", "h.after", "h.error"}
NotAFunction == "42"      \* a value that is neither undefined nor a function
HookObject == "h"         \* an object whose members Init chooses
BadObject == "bad"        \* an object whose `before` is not a function
Objects == {HookObject, BadObject}
Number == "7"             \* a value that is neither a function nor an object
Values == Fns \cup Objects \cup {Number}
HookNames == <<"before", "after", "error">>

is_function(v) == v \in Fns \cup HookFns
is_object(v) == v \in Objects \cup Fns \cup HookFns
is_undefined(v) == v = Undefined

\* Object::get_property(ctx, obj, name) on the objects of the model
get_property_of(obj, name) ==
    IF obj = HookObject THEN members[name]
    ELSE IF obj = BadObject /\ name = "before" THEN NotAFunction
    ELSE Undefined

(***************************************************************************)
(* Index sets and change sets (the change source's values)                 *)
(***************************************************************************)
\* An IndexSet is a sequence of disjoint half-open ranges <<begin, end>> in
\* ascending order; as_indexes() walks the ranges and yields every index.
RECURSIVE RangeIndexes(_, _)
RangeIndexes(begin, end) ==
    IF begin >= end THEN <<>> ELSE <<begin>> \o RangeIndexes(begin + 1, end)

RECURSIVE as_indexes(_)
as_indexes(index_set) ==
    IF index_set = <<>> THEN <<>>
    ELSE RangeIndexes(Head(index_set)[1], Head(index_set)[2]) \o as_indexes(Tail(index_set))

EmptyIndexSet == <<>>
EmptyChangeSet ==
    [deletions |-> EmptyIndexSet, insertions |-> EmptyIndexSet,
     modifications |-> EmptyIndexSet, modifications_new |-> EmptyIndexSet]

\* the change sets the source delivers in the model
ChangeSets ==
    { [deletions |-> << <<2, 3>> >>, insertions |-> << <<0, 2>> >>,
       modifications |-> EmptyIndexSet, modifications_new |-> EmptyIndexSet],
      [deletions |-> << <<0, 1>>, <<3, 4>> >>, insertions |-> << <<1, 2>> >>,
       modifications |-> << <<2, 3>> >>, modifications_new |-> << <<0, 1>>, <<2, 3>> >>] }

\* a pipeline failure: a std::exception with its what(), or any other thrown value
Failures == { [std |-> TRUE, what |-> "disk full"], [std |-> FALSE, what |-> None] }
NoFailure == [std |-> FALSE, what |-> "nullptr"]

(***************************************************************************)
(* Marshalling to JavaScript                                               *)
(***************************************************************************)
\* Object::create_array over Value::from_number of each index
RECURSIVE create_array(_)
create_array(indices) ==
    IF indices = <<>> THEN <<>> ELSE <<Head(indices)>> \o create_array(Tail(indices))

\* Object::create_empty and Object::set_property on a plain object
create_empty == [n \in {} |-> <<>>]
set_property_of(object, name, value) ==
    [n \in DOMAIN object \cup {name} |-> IF n = name THEN value ELSE object[n]]

\* a change-set object whose `modifications` are the new positions
create_collection_change_set_new(change_set) ==
    LET o1 == set_property_of(create_empty, "deletions",
                              create_array(as_indexes(change_set.deletions)))
        o2 == set_property_of(o1, "insertions",
                              create_array(as_indexes(change_set.insertions)))
        o3 == set_property_of(o2, "modifications",
                              create_array(as_indexes(change_set.modifications_new)))
    IN  o3

create_collection_change_set(change_set) ==
    LET o1 == set_property_of(create_empty, "deletions",
                              create_array(as_indexes(change_set.deletions)))
        o2 == set_property_of(o1, "insertions",
                              create_array(as_indexes(change_set.insertions)))
        o3 == set_property_of(o2, "modifications",
                              create_array(as_indexes(change_set.modifications)))
    IN  o3

to_array(index_set) == create_array(as_indexes(index_set))

\* Function<T>::call(ctx, function, this_object, argc, arguments)
Call(function, this_object, arguments) ==
    [fn |-> function, this |-> this_object, args |-> arguments]

(***************************************************************************)
(* The callbacks add_listener hands to the change source                   *)
(***************************************************************************)
\* js_collection.hpp:96-101, the lambda of the simple-callback protocol
Lambda(cb, change_set, exception) ==
    << Call(cb.protected_callback, cb.protected_this,
            <<cb.protected_this, create_collection_change_set(change_set)>>) >>

\* before() that looks the hook up on the hook object when the change arrives
Callback_before_late(cb, changes) ==
    << [fn |-> IF is_function(get_property_of(HookObject, "before"))
               THEN get_property_of(HookObject, "before") ELSE Null,
        this |-> cb.protected_this,
        args |-> <<cb.protected_this, create_array(as_indexes(changes.deletions)),
                   create_array(as_indexes(changes.modifications))>>] >>

Callback_before(cb, changes) ==
    << Call(cb.before_fn, cb.protected_this,
            <<cb.protected_this, to_array(changes.deletions),
              to_array(changes.modifications)>>) >>

\* after() handing over the old positions of the modifications
Callback_after_old(cb, changes) ==
    << [fn |-> cb.after_fn, this |-> cb.protected_this,
        args |-> <<cb.protected_this, create_array(as_indexes(changes.insertions)),
                   create_array(as_indexes(changes.modifications))>>] >>

Callback_after(cb, changes) ==
    << Call(cb.after_fn, cb.protected_this,
            <<cb.protected_this, to_array(changes.insertions),
              to_array(changes.modifications_new)>>) >>

\* error() that reports every failure as "unknown error"
Callback_error_unknown(cb, exception) ==
    << [fn |-> cb.error_fn, this |-> cb.protected_this,
        args |-> <<cb.protected_this, "unknown error">>] >>

Callback_error(cb, exception) ==
    IF exception.std
    THEN << Call(cb.error_fn, cb.protected_this, <<cb.protected_this, exception.what>>) >>
    ELSE << Call(cb.error_fn, cb.protected_this, <<cb.protected_this, "unknown error">>) >>

\* a get_function that takes a member that is no function for an absent one
get_function_lenient(obj, name) ==
    LET value == get_property_of(obj, name)
    IN  IF is_function(value) THEN [threw |-> FALSE, fn |-> value]
        ELSE [threw |-> FALSE, fn |-> Null]

\* the lambda get_function of add_listener: the Protected function it stores
\* in fn, or a throw of validated_to_function
get_function(obj, name) ==
    LET value == get_property_of(obj, name)
    IN  IF ~is_undefined(value)
        THEN IF is_function(value) THEN [threw |-> FALSE, fn |-> value]
             ELSE [threw |-> TRUE, fn |-> Null]
        ELSE [threw |-> FALSE, fn |-> Null]

(***************************************************************************)
(* The native change source (collection_notifications.hpp, not in src/)    *)
(***************************************************************************)
TokenIds == 1..MaxTokens

\* the tokens held by a list of (reference, token) pairs
TokensOf(pairs) == { pairs[i].second : i \in 1..Len(pairs) }

\* ~NotificationToken: destroying a token ends its subscription
unsubscribe(live, destroyed) == live \ destroyed

\* the JavaScript functions a sequence of calls went to
RECURSIVE FnsOf(_)
FnsOf(calls) == IF calls = <<>> THEN <<>> ELSE <<Head(calls).fn>> \o FnsOf(Tail(calls))

CallsNull(calls) == \E i \in 1..Len(calls) : calls[i].fn = Null

\* a call through an empty Protected<FunctionType> is undefined: the engine
\* either returns at once or the process dies
CrashOutcomes(calls) == IF CallsNull(calls) THEN {TRUE, FALSE} ELSE {FALSE}

Op(op, token, arg, calls, run, threw) ==
    [op |-> op, token |-> token, arg |-> arg, calls |-> calls, run |-> run, threw |-> threw]

(***************************************************************************)
(* ObservableCollection                                                    *)
(***************************************************************************)
\* Protected<ObjectType>::Comparator: identity of the referenced object
compare(a, b) == a = b

\* the callback of the simple protocol and of the hook-object protocol
simple_callback(this_object, callback) ==
    [kind |-> "simple", protected_this |-> this_object, protected_callback |-> callback]

hook_callback(this_object, before, after, error) ==
    [kind |-> "hook", protected_this |-> this_object,
     before_fn |-> before, after_fn |-> after, error_fn |-> error]

\* the values that can be protected from garbage collection
Protectables == Fns \cup HookFns \cup {HookObject, Instance}
NoProtects == [value \in Protectables |-> 0]

\* a reference that does not protect its value
Protected_raw(counts, value) == counts

\* Protected<T>(ctx, value): one more reference protects the value
Protected(counts, value) == [counts EXCEPT ![value] = @ + 1]

\* ~Protected<T>: the reference lets go of its value
Released(counts, value) == [counts EXCEPT ![value] = @ - 1]

RECURSIVE ProtectEach(_, _)
ProtectEach(counts, values) ==
    IF values = <<>> THEN counts
    ELSE ProtectEach(Protected(counts, Head(values)), Tail(values))

RECURSIVE ReleaseEach(_, _)
ReleaseEach(counts, values) ==
    IF values = <<>> THEN counts
    ELSE ReleaseEach(Released(counts, Head(values)), Tail(values))

\* a callback that holds the instance through a plain reference
captures_plain_this(cb) ==
    IF cb.kind = "simple"
    THEN <<cb.protected_callback>>
    ELSE SelectSeq(<<cb.before_fn, cb.after_fn, cb.error_fn>>, LAMBDA fn : fn # Null)

\* the Protected members of a callback: protected_callback and protected_this
\* of the lambda, protected_this and the hooks that were found of a Callback
captures(cb) ==
    IF cb.kind = "simple"
    THEN <<cb.protected_callback, cb.protected_this>>
    ELSE <<cb.protected_this>>
         \o SelectSeq(<<cb.before_fn, cb.after_fn, cb.error_fn>>, LAMBDA fn : fn # Null)

\* the pairs erased from the list take their Protected references with them
DestroyPairs(counts, pairs, kept) ==
    LET gone == SelectSeq(pairs, LAMBDA token : token.second \notin TokensOf(kept))
    IN  ReleaseEach(counts, [i \in 1..Len(gone) |-> gone[i].first])

\* the change source destroys the callback of a destroyed token, unless a
\* delivery to it is under way: then it goes when the delivery ends
RECURSIVE DestroyCallbacks(_, _, _)
DestroyCallbacks(counts, destroyed, t) ==
    IF t > Len(callbacks) THEN counts
    ELSE DestroyCallbacks(IF t \in destroyed /\ t \in subscribed /\ inflight[t] = <<>>
                          THEN ReleaseEach(counts, captures(callbacks[t]))
                          ELSE counts,
                          destroyed, t + 1)

\* m_notification_tokens.emplace_back(Protected(ctx, ref), std::move(token))
emplace_back(pairs, ref, token) == Append(pairs, [first |-> ref, second |-> token])

\* add_listener(ctx, this_object, value): subscribes and stores the pair
Subscribe(value, cb) ==
    LET token == Len(callbacks) + 1
    IN  /\ callbacks' = Append(callbacks, cb)
        /\ subscribed' = subscribed \cup {token}
        /\ m_notification_tokens' = emplace_back(m_notification_tokens, value, token)
        /\ removed' = removed \ {value}
        /\ last' = Op("add_listener", token, value, <<>>, <<>>, FALSE)
        /\ protects' = Protected(ProtectEach(protects, captures(cb)), value)
        /\ UNCHANGED <<inflight, hooks_run, crashed, members, wrapVars>>

Throw(op, value) ==
    /\ last' = Op(op, 0, value, <<>>, <<>>, TRUE)
    /\ UNCHANGED <<m_notification_tokens, callbacks, subscribed, inflight, hooks_run,
                   removed, crashed, members, protects, wrapVars>>

add_listener(this_object, value) ==
    /\ ~crashed
    /\ js_object.native # "deleted"
    /\ Len(callbacks) < MaxTokens
    /\ IF is_function(value)
       THEN Subscribe(value, simple_callback(this_object, value))
       ELSE IF ~is_object(value)
       THEN Throw("add_listener", value)        \* validated_to_object throws
       ELSE LET before == get_function(value, "before")
                after == get_function(value, "after")
                error == get_function(value, "error")
            IN  IF before.threw \/ after.threw \/ error.threw
                THEN Throw("add_listener", value)   \* validated_to_function throws
                ELSE Subscribe(value, hook_callback(this_object, before.fn, after.fn, error.fn))

\* a removal that stops at the first match
RECURSIVE remove_first_pair(_, _)
remove_first_pair(pairs, protected_function) ==
    IF pairs = <<>> THEN <<>>
    ELSE IF Head(pairs).first = protected_function THEN Tail(pairs)
    ELSE <<Head(pairs)>> \o remove_first_pair(Tail(pairs), protected_function)

\* a removal that fills each hole with the last pair (std::partition-like)
RECURSIVE remove_unstable(_, _)
remove_unstable(pairs, protected_function) ==
    IF pairs = <<>> THEN <<>>
    ELSE IF Head(pairs).first = protected_function
         THEN IF Len(pairs) = 1 THEN <<>>
              ELSE remove_unstable(<<pairs[Len(pairs)]>> \o SubSeq(pairs, 2, Len(pairs) - 1),
                                   protected_function)
         ELSE <<Head(pairs)>> \o remove_unstable(Tail(pairs), protected_function)

\* the pairs std::remove_if and erase leave in m_notification_tokens
remove_listener_pairs(pairs, protected_function) ==
    SelectSeq(pairs, LAMBDA token : ~compare(token.first, protected_function))

remove_listener(protected_function) ==
    /\ ~crashed
    /\ js_object.native # "deleted"
    /\ LET kept == remove_listener_pairs(m_notification_tokens, protected_function)
           destroyed == TokensOf(m_notification_tokens) \ TokensOf(kept)
       IN  /\ m_notification_tokens' = kept
           /\ subscribed' = unsubscribe(subscribed, destroyed)
           /\ removed' = IF \E i \in 1..Len(m_notification_tokens) :
                               m_notification_tokens[i].first = protected_function
                         THEN removed \cup {protected_function} ELSE removed
           /\ last' = Op("remove_listener", 0, protected_function, <<>>, <<>>, FALSE)
           /\ protects' = DestroyCallbacks(DestroyPairs(protects, m_notification_tokens, kept),
                                            destroyed, 1)
    /\ UNCHANGED <<callbacks, inflight, hooks_run, crashed, members, wrapVars>>

\* a removal of the newest registration only
remove_last_pair(pairs) == IF pairs = <<>> THEN <<>> ELSE SubSeq(pairs, 1, Len(pairs) - 1)

\* a clear() that only drops the simple-callback registrations
remove_only_functions(pairs) == SelectSeq(pairs, LAMBDA token : token.first \notin Fns)

\* m_notification_tokens.clear()
remove_all_listeners_pairs(pairs) == <<>>

remove_all_listeners ==
    /\ ~crashed
    /\ js_object.native # "deleted"
    /\ LET kept == remove_all_listeners_pairs(m_notification_tokens)
           destroyed == TokensOf(m_notification_tokens) \ TokensOf(kept)
       IN  /\ m_notification_tokens' = kept
           /\ subscribed' = unsubscribe(subscribed, destroyed)
           /\ last' = Op("remove_all_listeners", 0, None, <<>>, <<>>, FALSE)
           /\ protects' = DestroyCallbacks(DestroyPairs(protects, m_notification_tokens, kept),
                                            destroyed, 1)
    /\ UNCHANGED <<callbacks, inflight, hooks_run, removed, crashed, members, wrapVars>>

(***************************************************************************)
(* Deliveries made by the change source                                    *)
(***************************************************************************)
\* a change set reaches a simple-callback subscription: one call of the lambda
NotifyChange(t, cs) ==
    /\ ~crashed
    /\ t \in subscribed
    /\ callbacks[t].kind = "simple"
    /\ LET calls == Lambda(callbacks[t], cs, NoFailure)
       IN  /\ last' = Op("change", t, cs, calls, FnsOf(calls), FALSE)
           /\ crashed' \in CrashOutcomes(calls)
    /\ UNCHANGED <<m_notification_tokens, callbacks, subscribed, inflight, hooks_run,
                   removed, members, protects, wrapVars>>

\* a change set reaches a hook-object subscription: before() runs first ...
NotifyBefore(t, cs) ==
    /\ ~crashed
    /\ t \in subscribed
    /\ callbacks[t].kind = "hook"
    /\ inflight[t] = <<>>
    /\ LET calls == Callback_before(callbacks[t], cs)
       IN  /\ last' = Op("before", t, cs, calls, FnsOf(calls), FALSE)
           /\ hooks_run' = [hooks_run EXCEPT ![t] = FnsOf(calls)]
           /\ crashed' \in CrashOutcomes(calls)
    /\ inflight' = [inflight EXCEPT ![t] = <<cs>>]
    /\ UNCHANGED <<m_notification_tokens, callbacks, subscribed, removed,
                   members, protects, wrapVars>>

\* ... and after() once the collection has changed; a delivery that was
\* dispatched before its token was destroyed may still complete
NotifyAfter(t) ==
    /\ ~crashed
    /\ t \in 1..Len(callbacks)
    /\ inflight[t] # <<>>
    /\ LET calls == Callback_after(callbacks[t], inflight[t][1])
       IN  /\ last' = Op("after", t, inflight[t][1], calls, hooks_run[t] \o FnsOf(calls), FALSE)
           /\ crashed' \in CrashOutcomes(calls)
    /\ inflight' = [inflight EXCEPT ![t] = <<>>]
    /\ hooks_run' = [hooks_run EXCEPT ![t] = <<>>]
    /\ protects' = IF t \in subscribed THEN protects
                   ELSE ReleaseEach(protects, captures(callbacks[t]))
    /\ UNCHANGED <<m_notification_tokens, callbacks, subscribed, removed,
                   members, wrapVars>>

\* ... or is dropped when its token was destroyed in between
AbortDelivery(t) ==
    /\ ~crashed
    /\ t \in 1..Len(callbacks)
    /\ t \notin subscribed
    /\ inflight[t] # <<>>
    /\ inflight' = [inflight EXCEPT ![t] = <<>>]
    /\ hooks_run' = [hooks_run EXCEPT ![t] = <<>>]
    /\ last' = Op("abort", t, None, <<>>, <<>>, FALSE)
    /\ protects' = ReleaseEach(protects, captures(callbacks[t]))
    /\ UNCHANGED <<m_notification_tokens, callbacks, subscribed, removed,
                   crashed, members, wrapVars>>

\* the pipeline fails: the failure goes to the same callback in place of a change set
NotifyError(t, e) ==
    /\ ~crashed
    /\ t \in subscribed
    /\ inflight[t] = <<>>
    /\ LET calls == IF callbacks[t].kind = "simple"
                    THEN Lambda(callbacks[t], EmptyChangeSet, e)
                    ELSE Callback_error(callbacks[t], e)
       IN  /\ last' = Op("error", t, e, calls, FnsOf(calls), FALSE)
           /\ crashed' \in CrashOutcomes(calls)
    /\ UNCHANGED <<m_notification_tokens, callbacks, subscribed, inflight, hooks_run,
                   removed, members, protects, wrapVars>>

(***************************************************************************)
(* The notification bridge as a state machine                              *)
(***************************************************************************)
NoWrap == [op |-> "none"]
NoClass == [constructor |-> FALSE, index_getter |-> FALSE, index_setter |-> FALSE,
            string_getter |-> FALSE, string_setter |-> FALSE, string_enumerator |-> FALSE,
            methods |-> FALSE, properties |-> {}, static_methods |-> FALSE,
            static_properties |-> {}, depth |-> 0]
\* no class handle made, no instance
NoDefinition ==
    [made |-> "unmade", getProperty |-> FALSE, setProperty |-> FALSE,
     getPropertyNames |-> FALSE, finalize |-> FALSE, staticFunctions |-> FALSE,
     staticValues |-> {}, parentClass |-> 0]
NoConstructorDefinition ==
    [made |-> "unmade", callAsConstructor |-> FALSE, hasInstance |-> FALSE,
     staticFunctions |-> FALSE, staticValues |-> {}]
Unmade == [class |-> NoDefinition, constructor_class |-> NoConstructorDefinition]
NoObject == [private |-> None, native |-> None, value |-> None, deletes |-> 0,
             finalized |-> <<>>]

\* the members a hook object can have: each hook is a function or is absent
Shapes ==
    { [before |-> b, after |-> a, error |-> e] :
        b \in {Undefined, "h.before"}, a \in {Undefined, "h.after"},
        e \in {Undefined, "h.error"} }

InitColl ==
    /\ m_notification_tokens = <<>>
    /\ callbacks = <<>>
    /\ subscribed = {}
    /\ inflight = [t \in TokenIds |-> <<>>]
    /\ hooks_run = [t \in TokenIds |-> <<>>]
    /\ removed = {}
    /\ crashed = FALSE
    /\ last = Op("init", 0, None, <<>>, <<>>, FALSE)
    /\ members \in Shapes
    /\ protects = NoProtects

Init == InitColl /\ wrap = NoWrap /\ s_class = NoClass /\ js_class = Unmade /\ js_object = NoObject

Next ==
    \/ \E value \in Values : add_listener(Instance, value)
    \/ \E x \in Fns \cup {HookObject} : remove_listener(x)
    \/ remove_all_listeners
    \/ \E t \in TokenIds, cs \in ChangeSets : NotifyChange(t, cs)
    \/ \E t \in TokenIds, cs \in ChangeSets : NotifyBefore(t, cs)
    \/ \E t \in TokenIds : NotifyAfter(t)
    \/ \E t \in TokenIds : AbortDelivery(t)
    \/ \E t \in TokenIds, e \in Failures : NotifyError(t, e)

Spec == Init /\ [][Next]_vars

(***************************************************************************)
(* Properties of the notification bridge                                   *)
(***************************************************************************)
\* the operations with which the change source begins a delivery
BeginOps == {"change", "before", "error"}

\* the reference a live token is stored with
ListenersOf(t) ==
    { m_notification_tokens[i].first :
        i \in { j \in 1..Len(m_notification_tokens) : m_notification_tokens[j].second = t } }

\* the members of an index set, listed in ascending order
IndexSetMembers(index_set) ==
    UNION { { k \in index_set[i][1]..(index_set[i][2] - 1) : TRUE } : i \in 1..Len(index_set) }

RECURSIVE Ascending(_)
Ascending(S) ==
    IF S = {} THEN <<>>
    ELSE LET m == CHOOSE x \in S : \A y \in S : x <= y
         IN  <<m>> \o Ascending(S \ {m})

Expanded(index_set) == Ascending(IndexSetMembers(index_set))

\* C1: once remove_listener(f) has returned for a registered listener f, no
\* delivery that begins afterwards is made for f: every delivery that begins
\* is for a token stored with a reference that has not been removed.
C1_NoDeliveryAfterRemove ==
    last.op \in BeginOps =>
        /\ ListenersOf(last.token) # {}
        /\ ListenersOf(last.token) \cap removed = {}

\* f was registered and removed, and a delivery to the hook object began later
C1_Witness ==
    /\ "f" \in removed
    /\ last.op = "before"
    /\ Len(callbacks) >= 2

\* C2 as stated: remove_listener(x) removes the first pair holding x and only it.
C2_RemovesFirstMatchOnly ==
    [][last'.op = "remove_listener" =>
         m_notification_tokens' = remove_first_pair(m_notification_tokens, last'.arg)]_vars

\* position of the pair with token t in a list of pairs
PositionOf(pairs, t) == CHOOSE i \in 1..Len(pairs) : pairs[i].second = t

\* C2 amended: remove_listener(x) removes every pair whose reference is x; the
\* pairs holding other references stay, in their original relative order; if no
\* pair matches the list is unchanged.
C2_RemovesEveryMatch ==
    [][last'.op = "remove_listener" =>
         LET old == m_notification_tokens
             new == m_notification_tokens'
             x == last'.arg
         IN  /\ \A i \in 1..Len(new) : new[i].first # x
             /\ \A i \in 1..Len(new) : \E j \in 1..Len(old) : old[j] = new[i]
             /\ \A j \in 1..Len(old) :
                    old[j].first # x => \E i \in 1..Len(new) : new[i] = old[j]
             /\ \A i, k \in 1..Len(new) :
                    i < k => PositionOf(old, new[i].second) < PositionOf(old, new[k].second)
             /\ (\A j \in 1..Len(old) : old[j].first # x) => new = old]_vars

\* f was registered twice around the hook object, and remove_listener(f) left
\* the hook object's pair alone
C2_Witness ==
    /\ last.op = "remove_listener"
    /\ last.arg = "f"
    /\ Len(callbacks) = 3
    /\ callbacks[1].kind = "simple" /\ callbacks[2].kind = "hook" /\ callbacks[3].kind = "simple"
    /\ m_notification_tokens = << [first |-> HookObject, second |-> 2] >>

\* C3: after remove_all_listeners the list is empty and every token is
\* destroyed, whatever the mix of protocols; the live subscriptions are always
\* exactly the tokens of the list, and a delivery only begins for one of them.
C3_RemoveAllClearsEverything ==
    /\ last.op = "remove_all_listeners" => m_notification_tokens = <<>> /\ subscribed = {}
    /\ subscribed = TokensOf(m_notification_tokens)
    /\ last.op \in BeginOps => last.token \in TokensOf(m_notification_tokens)

\* a simple callback and a hook object were registered, nothing was removed
\* one by one, and remove_all_listeners ran
C3_Witness ==
    /\ last.op = "remove_all_listeners"
    /\ Len(callbacks) = 2
    /\ callbacks[1].kind # callbacks[2].kind
    /\ removed = {}

\* C4: each change set delivered to a simple-callback registration calls the
\* registered function exactly once, with the instance as receiver and the two
\* arguments (instance, change-set object); the object has exactly the arrays
\* deletions, insertions and modifications, each the index set in ascending order.
C4_SimpleCallbackDelivery ==
    last.op = "change" =>
        /\ Len(last.calls) = 1
        /\ {last.calls[1].fn} = ListenersOf(last.token)
        /\ last.calls[1].fn \in Fns
        /\ last.calls[1].this = Instance
        /\ Len(last.calls[1].args) = 2
        /\ last.calls[1].args[1] = Instance
        /\ DOMAIN last.calls[1].args[2] = {"deletions", "insertions", "modifications"}
        /\ last.calls[1].args[2]["deletions"] = Expanded(last.arg.deletions)
        /\ last.calls[1].args[2]["insertions"] = Expanded(last.arg.insertions)
        /\ last.calls[1].args[2]["modifications"] = Expanded(last.arg.modifications)

\* a change set whose modifications and new positions differ reached f
C4_Witness ==
    /\ last.op = "change"
    /\ last.arg.modifications # last.arg.modifications_new
    /\ last.arg.deletions # <<>>

\* the registration of token t has both a before and an after hook
HasBeforeAndAfter(t) ==
    /\ callbacks[t].kind = "hook"
    /\ members.before # Undefined
    /\ members.after # Undefined

\* C5: for a hook object with before and after, each change set calls before
\* once with (instance, deletions, modifications), then after once with
\* (instance, insertions, modifications_new).
C5_BeforeThenAfter ==
    /\ (last.op = "before" /\ HasBeforeAndAfter(last.token)) =>
          /\ last.calls = << [fn |-> members.before, this |-> Instance,
                              args |-> <<Instance, Expanded(last.arg.deletions),
                                         Expanded(last.arg.modifications)>>] >>
          /\ inflight[last.token] = <<last.arg>>
    /\ (last.op = "after" /\ HasBeforeAndAfter(last.token)) =>
          /\ last.calls = << [fn |-> members.after, this |-> Instance,
                              args |-> <<Instance, Expanded(last.arg.insertions),
                                         Expanded(last.arg.modifications_new)>>] >>
          /\ last.run = <<members.before, members.after>>

\* a delivery with non-empty modifications and new positions completed for a
\* hook object with before and after but no error hook
C5_Witness ==
    /\ last.op = "after"
    /\ HasBeforeAndAfter(last.token)
    /\ members.error = Undefined
    /\ last.arg.modifications # <<>>
    /\ last.arg.modifications_new # <<>>

\* C6 as stated: no call is ever attempted for a hook that was absent at
\* registration.
C6_AbsentHookNeverCalled ==
    \A i \in 1..Len(last.calls) : last.calls[i].fn # Null

\* C7 as stated: a pipeline failure does not invoke a simple callback at all.
C7_SimpleCallbackNotInvokedOnFailure ==
    (last.op = "error" /\ callbacks[last.token].kind = "simple") => last.calls = <<>>

\* C8: for a hook object with an error hook, a pipeline failure calls error
\* exactly once with (instance, message): the failure's description if it has
\* one, "unknown error" otherwise.
C8_ErrorHookMessage ==
    (last.op = "error" /\ callbacks[last.token].kind = "hook" /\ members.error # Undefined) =>
        last.calls = << [fn |-> members.error, this |-> Instance,
                         args |-> <<Instance,
                                    IF last.arg.what # None THEN last.arg.what
                                    ELSE "unknown error">>] >>

\* a failure with a description reached an error hook
C8_Witness ==
    /\ last.op = "error"
    /\ callbacks[last.token].kind = "hook"
    /\ members.error # Undefined
    /\ last.arg.what = "disk full"

(***************************************************************************)
(* ObjectWrap and the dispatch trampolines (jsc_class.hpp)                 *)
(***************************************************************************)
\* the longest collection an index getter reads from
MaxLength == 2
\* the longest superclass chain of a class
MaxDepth == 2

\* what a native callback can throw; all but "nonstd" derive from std::exception
Throwables == {"runtime_error", "out_of_range", "invalid_argument", "nonstd"}
is_std_exception(thrown) == thrown \in Throwables \ {"nonstd"}
\* what a native callback does: it returns, or it throws
Behaviours == {"return"} \cup Throwables
\* a native setter that returns bool can also return false
SetterBehaviours == Behaviours \cup {"return_false"}

Unset == "unset"          \* a jsc::ReturnValue nothing was stored in
Nullptr == "nullptr"
\* jsc::Exception::value(ctx, e): the engine error carrying e.what()
ExceptionValue(thrown) == thrown

\* what an entry point hands back to the engine: its return value, the error
\* slot, and the C++ exception that left it (None when none did)
Outcome(ret, exception, escaped) == [ret |-> ret, exception |-> exception, escaped |-> escaped]
Escapes(thrown) == Outcome(None, None, thrown)
\* an outcome whose error message is a fixed text followed by `about`
OutcomeAbout(ret, exception, about) ==
    [ret |-> ret, exception |-> exception, escaped |-> None, about |-> about]

\* try { F(...) } catch (std::exception &e) { *exception = ...; } return return_value;
wrap_method(native) ==
    IF native = "return" THEN Outcome("value", None, None)
    ELSE IF is_std_exception(native) THEN Outcome(Unset, ExceptionValue(native), None)
    ELSE Escapes(native)

wrap_property_getter(native) ==
    IF native = "return" THEN Outcome("value", None, None)
    ELSE IF is_std_exception(native) THEN Outcome(Unset, ExceptionValue(native), None)
    ELSE Escapes(native)

wrap_property_setter(native) ==
    IF native = "return" THEN Outcome("true", None, None)
    ELSE IF is_std_exception(native) THEN Outcome("false", ExceptionValue(native), None)
    ELSE Escapes(native)

\* an index getter that reports out_of_range like any other failure
wrap_index_getter_raising(result) ==
    IF result.does = "return" THEN [ret |-> result.value, exception |-> None, escaped |-> None]
    ELSE IF result.does \in Throwables \ {"nonstd"}
    THEN [ret |-> Unset, exception |-> result.does, escaped |-> None]
    ELSE [ret |-> None, exception |-> None, escaped |-> result.does]

\* result: what the native index getter F did, [does, value]
wrap_index_getter(result) ==
    IF result.does = "return" THEN Outcome(result.value, None, None)
    ELSE IF result.does = "out_of_range" THEN Outcome(Undefined, None, None)
    ELSE IF is_std_exception(result.does) THEN Outcome(Unset, ExceptionValue(result.does), None)
    ELSE Escapes(result.does)

wrap_index_setter(native) ==
    IF native = "return" THEN Outcome("true", None, None)
    ELSE IF native = "return_false" THEN Outcome("false", None, None)
    ELSE IF is_std_exception(native) THEN Outcome("false", ExceptionValue(native), None)
    ELSE Escapes(native)

wrap_string_getter(native) ==
    IF native = "return" THEN Outcome("value", None, None)
    ELSE IF is_std_exception(native) THEN Outcome(Unset, ExceptionValue(native), None)
    ELSE Escapes(native)

wrap_string_setter(native) ==
    IF native = "return" THEN Outcome("true", None, None)
    ELSE IF native = "return_false" THEN Outcome("false", None, None)
    ELSE IF is_std_exception(native) THEN Outcome("false", ExceptionValue(native), None)
    ELSE Escapes(native)

\* auto names = F(ctx, object); no try block around it
wrap_string_enumerator(native) ==
    IF native = "return" THEN Outcome("names", None, None)
    ELSE Escapes(native)

(***************************************************************************)
(* Property names and indexes                                              *)
(***************************************************************************)
Digits == <<"0", "1", "2", "3", "4", "5", "6", "7", "8", "9">>
DigitChars == { Digits[i] : i \in 1..Len(Digits) }
DigitValue(c) == (CHOOSE i \in 1..Len(Digits) : Digits[i] = c) - 1

\* std::numeric_limits<uint32_t>::max(), as its decimal digits
UInt32MaxDigits == <<"4", "2", "9", "4", "9", "6", "7", "2", "9", "5">>

RECURSIVE LeadingDigits(_)
LeadingDigits(chars) ==
    IF chars = <<>> \/ Head(chars) \notin DigitChars THEN <<>>
    ELSE <<Head(chars)>> \o LeadingDigits(Tail(chars))

RECURSIVE StripZeros(_)
StripZeros(digits) ==
    IF Len(digits) > 1 /\ Head(digits) = "0" THEN StripZeros(Tail(digits)) ELSE digits

RECURSIVE DigitsValue(_)
DigitsValue(digits) ==
    IF digits = <<>> THEN 0
    ELSE 10 * DigitsValue(SubSeq(digits, 1, Len(digits) - 1)) + DigitValue(digits[Len(digits)])

\* a > b for digit strings of the same length
RECURSIVE DigitsGreater(_, _)
DigitsGreater(a, b) ==
    IF a = <<>> THEN FALSE
    ELSE IF Head(a) # Head(b) THEN DigitValue(Head(a)) > DigitValue(Head(b))
    ELSE DigitsGreater(Tail(a), Tail(b))

ExceedsUInt32(digits) ==
    \/ Len(digits) > Len(UInt32MaxDigits)
    \/ Len(digits) = Len(UInt32MaxDigits) /\ DigitsGreater(digits, UInt32MaxDigits)

\* validated_positive_index(std::string): the index, or the exception thrown
\* (invalid_argument when the string is no number, out_of_range when the
\* number is negative or does not fit uint32_t)
validated_positive_index(name) ==
    LET negative == name # <<>> /\ Head(name) = "-"
        digits == StripZeros(LeadingDigits(IF negative THEN Tail(name) ELSE name))
    IN  IF digits = <<>> THEN [threw |-> "invalid_argument", index |-> 0]
        ELSE IF negative /\ digits # <<"0">> THEN [threw |-> "out_of_range", index |-> 0]
        ELSE IF ExceedsUInt32(digits) THEN [threw |-> "out_of_range", index |-> 0]
        ELSE [threw |-> None, index |-> DigitsValue(digits)]

\* the property names read in the model
TooLargeName == <<"4", "2", "9", "4", "9", "6", "7", "2", "9", "6">>
Names == { <<"0">>, <<"1">>, <<"2">>, <<"3">>, <<"-", "1">>, <<"x">>, TooLargeName }

\* the elements of the collection behind the index getter
ElementNames == <<"e0", "e1", "e2", "e3">>
Element(index) == ElementNames[index + 1]

\* the native index getter of a collection of `length` elements: a lookup that
\* throws out_of_range past the end, or a getter that fails otherwise
IndexGetterModes == {"lookup", "runtime_error", "nonstd"}
NativeIndexGetter(index, length, mode) ==
    IF mode = "lookup"
    THEN IF index < length THEN [does |-> "return", value |-> Element(index)]
         ELSE [does |-> "out_of_range", value |-> None]
    ELSE [does |-> mode, value |-> None]

(***************************************************************************)
(* ObjectWrap entry points                                                 *)
(***************************************************************************)
\* the properties a descriptor declares: each has a getter, some a setter
ReadOnlyName == <<"r", "o">>
ReadWriteName == <<"r", "w">>
PropertyMaps ==
    { {},
      { [name |-> ReadOnlyName, setter |-> FALSE], [name |-> ReadWriteName, setter |-> TRUE] } }

\* the descriptors whose property dispatch is explored: any mix of constructor,
\* accessors and declared properties, no superclass and no static members
Descriptors ==
    [constructor : BOOLEAN, index_getter : BOOLEAN, index_setter : BOOLEAN,
     string_getter : BOOLEAN, string_setter : BOOLEAN, string_enumerator : BOOLEAN,
     methods : {FALSE}, properties : PropertyMaps, static_methods : {FALSE},
     static_properties : {{}}, depth : {0}]

\* ObjectWrap::construct: the outcome and the state of the instance it made
construct(class, native) ==
    IF ~class.constructor
    THEN [outcome |-> Outcome(Nullptr, "Illegal constructor", None), instance |-> None]
    ELSE IF native = "return"
    THEN [outcome |-> Outcome("this_object", None, None), instance |-> "populated"]
    ELSE IF is_std_exception(native)
    THEN [outcome |-> Outcome("this_object", ExceptionValue(native), None), instance |-> "empty"]
    ELSE [outcome |-> Escapes(native), instance |-> "empty"]

\* a get_property that turns an integer outside the index range over to the
\* string getter
get_property_falls_through(class, property, length, mode, native) ==
    LET parsed == validated_positive_index(property)
        by_string ==
            IF class.string_getter
            THEN [outcome |-> wrap_string_getter(native), called |-> {"string_getter"}]
            ELSE [outcome |-> Outcome(Nullptr, None, None), called |-> {}]
    IN  IF class.index_getter /\ parsed.threw = None
        THEN [outcome |-> wrap_index_getter(NativeIndexGetter(parsed.index, length, mode)),
              called |-> {"index_getter"}]
        ELSE by_string

\* ObjectWrap::get_property: the outcome and the getters it called
get_property(class, property, length, mode, native) ==
    LET parsed == validated_positive_index(property)
        by_string ==
            IF class.string_getter
            THEN [outcome |-> wrap_string_getter(native), called |-> {"string_getter"}]
            ELSE [outcome |-> Outcome(Nullptr, None, None), called |-> {}]
    IN  IF class.index_getter
        THEN IF parsed.threw = None
             THEN [outcome |-> wrap_index_getter(NativeIndexGetter(parsed.index, length, mode)),
                   called |-> {"index_getter"}]
             ELSE IF parsed.threw = "out_of_range"
             THEN [outcome |-> Outcome(Undefined, None, None), called |-> {}]
             ELSE by_string
        ELSE by_string

\* util::to_string(index): the decimal digits of the index
RECURSIVE to_string(_)
to_string(index) ==
    IF index < 10 THEN <<Digits[index + 1]>>
    ELSE to_string(index \div 10) \o <<Digits[(index % 10) + 1]>>

\* a set_property that lets a write to a read-only index fall through to the
\* string setter
set_property_falls_through(class, property, native) ==
    LET parsed == validated_positive_index(property)
        by_string ==
            IF class.string_setter
            THEN [outcome |-> wrap_string_setter(native), called |-> {"string_setter"}]
            ELSE [outcome |-> Outcome("false", None, None), called |-> {}]
    IN  IF class.index_setter /\ parsed.threw = None
        THEN [outcome |-> wrap_index_setter(native), called |-> {"index_setter"}]
        ELSE IF (class.index_setter \/ class.index_getter) /\ parsed.threw = "out_of_range"
        THEN [outcome |-> Outcome("false", ExceptionValue("out_of_range"), None), called |-> {}]
        ELSE by_string

\* ObjectWrap::set_property: the outcome and the setters it called
set_property(class, property, native) ==
    LET parsed == validated_positive_index(property)
        by_string ==
            IF class.string_setter
            THEN [outcome |-> wrap_string_setter(native), called |-> {"string_setter"}]
            ELSE [outcome |-> Outcome("false", None, None), called |-> {}]
    IN  IF class.index_setter \/ class.index_getter
        THEN IF parsed.threw = None
             THEN IF class.index_setter
                  THEN [outcome |-> wrap_index_setter(native), called |-> {"index_setter"}]
                  ELSE [outcome |-> OutcomeAbout("false", "Cannot assigned to read only index",
                                                 to_string(parsed.index)),
                        called |-> {}]
             ELSE IF parsed.threw = "out_of_range"
             THEN [outcome |-> Outcome("false", ExceptionValue("out_of_range"), None),
                   called |-> {}]
             ELSE by_string
        ELSE by_string

\* Object::validated_get_length: the length, or the exception it throws
LengthQueries == {"return"} \cup (Throwables \ {"nonstd"})
\* the names the native string enumerator returns
EnumeratedNames == << <<"x">>, <<"y">> >>

\* for (uint32_t i = 0; i < length; i++) { sprintf(string, "%u", i); add name }
RECURSIVE index_names(_, _)
index_names(i, length) ==
    IF i >= length THEN <<>> ELSE <<to_string(i)>> \o index_names(i + 1, length)

\* a get_property_names that gives up when the length cannot be had
get_property_names_giving_up(class, length, query, native) ==
    LET numeric == IF class.index_getter /\ query = "return"
                   THEN index_names(0, length) ELSE <<>>
        outcome == IF class.string_enumerator /\ (class.index_getter => query = "return")
                   THEN wrap_string_enumerator(native)
                   ELSE Outcome(None, None, None)
    IN  [ret |-> None, exception |-> None, escaped |-> outcome.escaped, query |-> query,
         names |-> IF outcome.ret = "names" THEN numeric \o EnumeratedNames ELSE numeric]

\* ObjectWrap::get_property_names: what left it and the names accumulated
get_property_names(class, length, query, native) ==
    LET numeric == IF class.index_getter /\ query = "return"
                   THEN index_names(0, length) ELSE <<>>
        outcome == IF class.string_enumerator
                   THEN wrap_string_enumerator(native)
                   ELSE Outcome(None, None, None)
    IN  [ret |-> None, exception |-> None, escaped |-> outcome.escaped, query |-> query,
         names |-> IF outcome.ret = "names" THEN numeric \o EnumeratedNames ELSE numeric]

\* a set_readonly_property that reports the write as done
set_readonly_property_silent(name) ==
    [outcome |-> Outcome("true", None, None), called |-> {}]

\* ObjectWrap::set_readonly_property: the error names the property
set_readonly_property(name) ==
    [outcome |-> OutcomeAbout("false", "Cannot assign to read only property", name),
     called |-> {}]

\* get_methods: the table is written through operator[] past the size of a
\* vector that only reserved its storage, which a checked library build stops
get_methods(methods) == IF methods THEN {"filled", "aborted"} ELSE {"filled"}

\* get_properties: one row per declared property, the setter of a property
\* without one being set_readonly_property; written like get_methods
get_properties(properties) ==
    IF properties = {}
    THEN {[made |-> "filled", values |-> {}]}
    ELSE {[made |-> "filled",
           values |-> { [name |-> p.name,
                         setter |-> IF p.setter THEN "setter" ELSE "set_readonly_property"] :
                        p \in properties }],
          [made |-> "aborted", values |-> {}]}

\* create_class: the callbacks the class definition installs
create_class(class) ==
    { [made |-> IF "aborted" \in {methods, properties.made} THEN "aborted" ELSE "made",
       getProperty |-> class.index_getter \/ class.string_getter,
       setProperty |-> class.index_getter \/ class.string_getter
                       \/ class.index_setter \/ class.string_setter,
       getPropertyNames |-> class.index_getter \/ class.string_enumerator,
       finalize |-> TRUE,
       staticFunctions |-> class.methods,
       staticValues |-> properties.values,
       parentClass |-> class.depth] :
      methods \in get_methods(class.methods),
      properties \in get_properties(class.properties) }

\* a create_constructor_class that makes a constructor class only for a
\* descriptor with a constructor
create_constructor_class_for_constructor(class) ==
    IF ~class.constructor
    THEN {[NoConstructorDefinition EXCEPT !.made = "null"]}
    ELSE {[made |-> "made", callAsConstructor |-> TRUE, hasInstance |-> TRUE,
           staticFunctions |-> class.static_methods, staticValues |-> class.static_properties]}

\* create_constructor_class: nullptr without constructor and static members,
\* else a class with hasInstance, the static tables, and callAsConstructor
\* only when the descriptor has a constructor
create_constructor_class(class) ==
    IF ~class.constructor /\ ~class.static_methods /\ class.static_properties = {}
    THEN {[NoConstructorDefinition EXCEPT !.made = "null"]}
    ELSE { [made |-> IF "aborted" \in {methods, properties.made} THEN "aborted" ELSE "made",
            callAsConstructor |-> class.constructor,
            hasInstance |-> TRUE,
            staticFunctions |-> class.static_methods,
            staticValues |-> properties.values] :
           methods \in get_methods(class.static_methods),
           properties \in get_properties(class.static_properties) }

\* ObjectWrap::finalize that deletes the wrap and leaves the pointer in place
finalize_keeping_pointer(instance) ==
    IF instance.private = "wrap"
    THEN [instance EXCEPT !.native = "deleted", !.deletes = @ + 1]
    ELSE instance

\* ObjectWrap::finalize: delete the wrap behind a non-null private pointer
\* and clear the pointer
finalize(instance) ==
    IF instance.private = "wrap"
    THEN [instance EXCEPT !.native = "deleted", !.deletes = @ + 1, !.private = Nullptr]
    ELSE instance

\* the class handle is made and its callbacks are installed
Made == js_class.class.made = "made"

Entry(op, name, length, native, outcome, called, instance) ==
    [op |-> op, name |-> name, length |-> length, native |-> native,
     ret |-> outcome.ret, exception |-> outcome.exception, escaped |-> outcome.escaped,
     about |-> IF "about" \in DOMAIN outcome THEN outcome.about ELSE <<>>,
     names |-> IF "names" \in DOMAIN outcome THEN outcome.names ELSE <<>>,
     query |-> IF "query" \in DOMAIN outcome THEN outcome.query ELSE None,
     called |-> called, instance |-> instance]

\* a native setter that returned true stored the value in the native object
Stored(written) ==
    IF written.called # {} /\ written.outcome.ret = "true"
    THEN [js_object EXCEPT !.value = "written"]
    ELSE js_object

\* the wrapped instance create() makes
Wrap == [NoObject EXCEPT !.private = "wrap", !.native = "alive", !.value = "initial"]

\* the instance is wrapped: its private pointer leads to the native object
Wrapped == Made /\ js_object.private = "wrap"

\* get_class(): the class is made once, on first use
GetClass ==
    /\ js_class.class.made = "unmade"
    /\ \E definition \in create_class(s_class) :
          js_class' = [js_class EXCEPT !.class = definition]
    /\ UNCHANGED <<s_class, js_object, wrap, collVars>>

\* the engine takes the outcome of an entry before it makes the next one
Return ==
    /\ wrap # NoWrap
    /\ wrap' = NoWrap
    /\ UNCHANGED <<s_class, js_class, js_object, collVars>>

WrapMethod(native) ==
    /\ Made
    /\ wrap = NoWrap
    /\ wrap' = Entry("method", <<>>, 0, native, wrap_method(native), {}, None)
    /\ UNCHANGED <<s_class, js_class, js_object, collVars>>

WrapPropertyGetter(native) ==
    /\ Made
    /\ wrap = NoWrap
    /\ wrap' = Entry("getter", <<>>, 0, native, wrap_property_getter(native), {}, None)
    /\ UNCHANGED <<s_class, js_class, js_object, collVars>>

WrapPropertySetter(native) ==
    /\ Made
    /\ wrap = NoWrap
    /\ wrap' = Entry("setter", <<>>, 0, native, wrap_property_setter(native), {}, None)
    /\ UNCHANGED <<s_class, js_class, js_object, collVars>>

WrapIndexGetter(index, length, mode) ==
    /\ Made
    /\ wrap = NoWrap
    /\ wrap' = Entry("index_getter", <<>>, length, mode,
                     wrap_index_getter(NativeIndexGetter(index, length, mode)), {}, None)
    /\ UNCHANGED <<s_class, js_class, js_object, collVars>>

WrapIndexSetter(native) ==
    /\ Made
    /\ wrap = NoWrap
    /\ wrap' = Entry("index_setter", <<>>, 0, native, wrap_index_setter(native), {}, None)
    /\ UNCHANGED <<s_class, js_class, js_object, collVars>>

WrapStringGetter(native) ==
    /\ Made
    /\ wrap = NoWrap
    /\ wrap' = Entry("string_getter", <<>>, 0, native, wrap_string_getter(native), {}, None)
    /\ UNCHANGED <<s_class, js_class, js_object, collVars>>

WrapStringSetter(native) ==
    /\ Made
    /\ wrap = NoWrap
    /\ wrap' = Entry("string_setter", <<>>, 0, native, wrap_string_setter(native), {}, None)
    /\ UNCHANGED <<s_class, js_class, js_object, collVars>>

WrapStringEnumerator(native) ==
    /\ Made
    /\ wrap = NoWrap
    /\ wrap' = Entry("string_enumerator", <<>>, 0, native, wrap_string_enumerator(native), {}, None)
    /\ UNCHANGED <<s_class, js_class, js_object, collVars>>

Construct(native) ==
    LET made == construct(s_class, native)
    IN  /\ Made
        /\ wrap = NoWrap
        /\ wrap' = Entry("construct", <<>>, 0, native, made.outcome, {}, made.instance)
        /\ UNCHANGED <<s_class, js_class, js_object, collVars>>

GetProperty(property, length, mode, native) ==
    LET got == get_property(s_class, property, length, mode, native)
    IN  /\ Wrapped
        /\ js_class.class.getProperty
        /\ wrap = NoWrap
        /\ wrap' = Entry("get_property", property, length, mode, got.outcome, got.called, None)
        /\ UNCHANGED <<s_class, js_class, js_object, collVars>>

SetProperty(property, native) ==
    LET written == set_property(s_class, property, native)
    IN  /\ Wrapped
        /\ js_class.class.setProperty
        /\ wrap = NoWrap
        /\ wrap' = Entry("set_property", property, 0, native, written.outcome, written.called,
                         None)
        /\ js_object' = Stored(written)
        /\ UNCHANGED <<s_class, js_class, collVars>>

\* the engine writes a declared property through its row of staticValues
WriteProperty(name, native) ==
    /\ Wrapped
    /\ wrap = NoWrap
    /\ \E row \in js_class.class.staticValues :
          /\ row.name = name
          /\ LET written ==
                     IF row.setter = "setter"
                     THEN [outcome |-> wrap_property_setter(native), called |-> {"setter"}]
                     ELSE set_readonly_property(name)
             IN  /\ wrap' = Entry("write_property", name, 0, native, written.outcome,
                                  written.called, None)
                 /\ js_object' = Stored(written)
    /\ UNCHANGED <<s_class, js_class, collVars>>

GetPropertyNames(length, query, native) ==
    /\ Wrapped
    /\ js_class.class.getPropertyNames
    /\ wrap = NoWrap
    /\ wrap' = Entry("get_property_names", <<>>, length, native,
                     get_property_names(s_class, length, query, native), {}, None)
    /\ UNCHANGED <<s_class, js_class, js_object, collVars>>

\* create(ctx, internal): JSObjectMake(ctx, get_class(), new ObjectWrap<T>(internal))
Create ==
    /\ js_object = NoObject
    /\ \E definition \in IF js_class.class.made = "unmade" THEN create_class(s_class)
                          ELSE {js_class.class} :
          /\ js_class' = [js_class EXCEPT !.class = definition]
          /\ js_object' = IF definition.made = "made" THEN Wrap ELSE NoObject
    /\ wrap = NoWrap
    /\ UNCHANGED <<s_class, wrap, collVars>>

\* create_constructor(ctx): an object of the constructor class when there is
\* one, else the engine's default constructor object over get_class()
CreateConstructor ==
    /\ js_class.constructor_class.made = "unmade"
    /\ wrap = NoWrap
    /\ \E constructor_class \in create_constructor_class(s_class),
          definition \in IF js_class.class.made = "unmade" THEN create_class(s_class)
                         ELSE {js_class.class} :
          IF constructor_class.made = "null"
          THEN /\ js_class' = [class |-> definition, constructor_class |-> constructor_class]
               /\ wrap' = IF definition.made = "made"
                          THEN Entry("create_constructor", <<>>, 0, None,
                                     Outcome("JSObjectMakeConstructor", None, None), {}, None)
                          ELSE NoWrap
          ELSE /\ js_class' = [js_class EXCEPT !.constructor_class = constructor_class]
               /\ wrap' = IF constructor_class.made = "made"
                          THEN Entry("create_constructor", <<>>, 0, None,
                                     Outcome("JSObjectMake", None, None), {}, None)
                          ELSE NoWrap
    /\ UNCHANGED <<s_class, js_object, collVars>>

\* user code applies `new` to the constructor object
New(native) ==
    /\ wrap = NoWrap
    /\ \/ /\ js_class.constructor_class.made = "made"
          /\ LET made == IF js_class.constructor_class.callAsConstructor
                         THEN construct(s_class, native)
                         ELSE [outcome |-> Outcome(Nullptr, "not a constructor", None),
                               instance |-> None]
             IN  wrap' = Entry("new", <<>>, 0, native, made.outcome,
                               IF js_class.constructor_class.callAsConstructor
                               THEN {"construct"} ELSE {}, made.instance)
       \/ /\ js_class.constructor_class.made = "null"
          /\ Made
          /\ LET made == construct(s_class, native)
             IN  wrap' = Entry("new", <<>>, 0, native, made.outcome, {"construct"},
                               made.instance)
    /\ UNCHANGED <<s_class, js_class, js_object, collVars>>

\* the engine collects the instance and runs the finalize callback of its
\* class, then of each superclass
Finalize(level) ==
    /\ wrap = NoWrap
    /\ js_object # NoObject
    /\ level = Len(js_object.finalized)
    /\ level <= js_class.class.parentClass
    /\ js_object' = [finalize(js_object) EXCEPT !.finalized = Append(@, level)]
    /\ UNCHANGED <<s_class, js_class, wrap, collVars>>

InitWrap ==
    /\ m_notification_tokens = <<>>
    /\ callbacks = <<>>
    /\ subscribed = {}
    /\ inflight = [t \in TokenIds |-> <<>>]
    /\ hooks_run = [t \in TokenIds |-> <<>>]
    /\ removed = {}
    /\ crashed = FALSE
    /\ last = Op("init", 0, None, <<>>, <<>>, FALSE)
    /\ members = [before |-> Undefined, after |-> Undefined, error |-> Undefined]
    /\ protects = NoProtects
    /\ s_class \in Descriptors
    /\ js_class = Unmade
    /\ js_object = NoObject
    /\ wrap = NoWrap

NextWrap ==
    \/ GetClass
    \/ \E native \in Behaviours : WrapMethod(native)
    \/ \E native \in Behaviours : WrapPropertyGetter(native)
    \/ \E native \in Behaviours : WrapPropertySetter(native)
    \/ \E index \in 0..MaxLength, length \in 0..MaxLength, mode \in IndexGetterModes :
          WrapIndexGetter(index, length, mode)
    \/ \E native \in SetterBehaviours : WrapIndexSetter(native)
    \/ \E native \in Behaviours : WrapStringGetter(native)
    \/ \E native \in SetterBehaviours : WrapStringSetter(native)
    \/ \E native \in Behaviours : WrapStringEnumerator(native)
    \/ \E native \in Behaviours : Construct(native)
    \/ \E property \in Names, length \in 0..MaxLength, mode \in IndexGetterModes,
          native \in Behaviours : GetProperty(property, length, mode, native)
    \/ \E property \in Names, native \in SetterBehaviours : SetProperty(property, native)
    \/ \E name \in {ReadOnlyName, ReadWriteName}, native \in Behaviours :
          WriteProperty(name, native)
    \/ \E length \in 0..MaxLength, query \in LengthQueries, native \in Behaviours :
          GetPropertyNames(length, query, native)
    \/ Create
    \/ Return

SpecWrap == InitWrap /\ [][NextWrap]_vars

(***************************************************************************)
(* The life of a collection instance                                       *)
(***************************************************************************)
\* the engine collects the collection instance, which no Protected reference
\* holds any more: finalize deletes the wrap, and with the native collection
\* go m_notification_tokens and the tokens in it
Destroy ==
    /\ ~crashed
    /\ js_object.native = "alive"
    /\ protects[Instance] = 0
    /\ js_object' = [finalize(js_object) EXCEPT !.finalized = Append(@, 0)]
    /\ LET destroyed == TokensOf(m_notification_tokens)
       IN  /\ m_notification_tokens' = <<>>
           /\ subscribed' = unsubscribe(subscribed, destroyed)
           /\ protects' = DestroyCallbacks(DestroyPairs(protects, m_notification_tokens, <<>>),
                                            destroyed, 1)
    /\ last' = Op("finalize", 0, None, <<>>, <<>>, FALSE)
    /\ UNCHANGED <<callbacks, inflight, hooks_run, removed, crashed, members,
                   s_class, js_class, wrap>>

InitLife ==
    /\ m_notification_tokens = <<>>
    /\ callbacks = <<>>
    /\ subscribed = {}
    /\ inflight = [t \in TokenIds |-> <<>>]
    /\ hooks_run = [t \in TokenIds |-> <<>>]
    /\ removed = {}
    /\ crashed = FALSE
    /\ last = Op("init", 0, None, <<>>, <<>>, FALSE)
    /\ members = [before |-> "h.before", after |-> "h.after", error |-> Undefined]
    /\ protects = NoProtects
    /\ s_class = NoClass
    /\ js_class \in { [Unmade EXCEPT !.class = definition] : definition \in create_class(NoClass) }
    /\ js_object = Wrap
    /\ wrap = NoWrap

NextLife ==
    \/ \E value \in Values : add_listener(Instance, value)
    \/ \E x \in Fns \cup {HookObject} : remove_listener(x)
    \/ remove_all_listeners
    \/ \E t \in TokenIds, cs \in ChangeSets : NotifyChange(t, cs)
    \/ \E t \in TokenIds, cs \in ChangeSets : NotifyBefore(t, cs)
    \/ \E t \in TokenIds : NotifyAfter(t)
    \/ \E t \in TokenIds : AbortDelivery(t)
    \/ \E t \in TokenIds, e \in Failures : NotifyError(t, e)
    \/ Destroy

SpecLife == InitLife /\ [][NextLife]_vars

(***************************************************************************)
(* A hook object whose members change after registration                   *)
(***************************************************************************)
\* the values user code gives a member of the hook object: it deletes the
\* member, sets the hook of that name, or puts another function in its place
MemberValues(name) ==
    IF name = "before" THEN {Undefined, "h.before", "h.after"}
    ELSE IF name = "after" THEN {Undefined, "h.after"}
    ELSE {Undefined, "h.error"}

\* user code assigns or deletes before, after or error of the hook object
SetMember(name, value) ==
    /\ ~crashed
    /\ value \in MemberValues(name)
    /\ members[name] # value
    /\ members' = [members EXCEPT ![name] = value]
    /\ UNCHANGED <<m_notification_tokens, callbacks, subscribed, inflight, hooks_run,
                   removed, crashed, last, protects, wrapVars>>

\* add_listener while fewer than MaxHooked registrations were made
AddHooked(value) ==
    /\ Len(callbacks) < MaxHooked
    /\ add_listener(Instance, value)

NextHooks ==
    \/ \E value \in Fns \cup {HookObject} : AddHooked(value)
    \/ \E name \in {"before", "after", "error"}, value \in HookFns \cup {Undefined} :
          SetMember(name, value)
    \/ \E t \in TokenIds, cs \in ChangeSets : NotifyChange(t, cs)
    \/ \E t \in TokenIds, cs \in ChangeSets : NotifyBefore(t, cs)
    \/ \E t \in TokenIds : NotifyAfter(t)
    \/ \E t \in TokenIds, e \in Failures : NotifyError(t, e)

SpecHooks == Init /\ [][NextHooks]_vars

\* the descriptors whose class handles and instances are explored: any mix of
\* constructor, methods and static members over a superclass chain
StaticPropertyMaps == { {}, {[name |-> ReadOnlyName, setter |-> FALSE]} }
ClassDescriptors ==
    [constructor : BOOLEAN, index_getter : {FALSE}, index_setter : {FALSE},
     string_getter : {FALSE}, string_setter : {FALSE}, string_enumerator : {FALSE},
     methods : BOOLEAN, properties : {{}}, static_methods : BOOLEAN,
     static_properties : StaticPropertyMaps, depth : 0..MaxDepth]

InitClass ==
    /\ m_notification_tokens = <<>>
    /\ callbacks = <<>>
    /\ subscribed = {}
    /\ inflight = [t \in TokenIds |-> <<>>]
    /\ hooks_run = [t \in TokenIds |-> <<>>]
    /\ removed = {}
    /\ crashed = FALSE
    /\ last = Op("init", 0, None, <<>>, <<>>, FALSE)
    /\ members = [before |-> Undefined, after |-> Undefined, error |-> Undefined]
    /\ protects = NoProtects
    /\ s_class \in ClassDescriptors
    /\ js_class = Unmade
    /\ js_object = NoObject
    /\ wrap = NoWrap

NextClass ==
    \/ GetClass
    \/ CreateConstructor
    \/ \E native \in Behaviours : New(native)
    \/ Create
    \/ \E level \in 0..MaxDepth : Finalize(level)
    \/ Return

SpecClass == InitClass /\ [][NextClass]_vars

(***************************************************************************)
(* Properties of ObjectWrap and the trampolines                            *)
(***************************************************************************)
TrampolineOps ==
    {"method", "getter", "setter", "index_getter", "index_setter", "string_getter",
     "string_setter", "string_enumerator", "construct"}

\* C9 as stated: whatever the wrapped callback throws, no native exception
\* leaves one of the eight trampolines or the constructor trampoline.
C9_NoExceptionLeavesATrampoline ==
    wrap.op \in TrampolineOps => wrap.escaped = None

\* the name is the decimal numeral of an index below `length`
NamesBelow(length) == { <<Digits[k + 1]>> : k \in 0..(length - 1) }
IsNumeral(name) == name # <<>> /\ \A i \in 1..Len(name) : name[i] \in DigitChars

\* C10: with an index getter over a collection of length L (a getter that
\* looks the element up and throws out_of_range past the end), reading the
\* numeric name i returns the element when i < L, and undefined with the
\* error slot unset when i >= L, also when i does not fit an index; no
\* exception is raised either way.
C10_IndexRead ==
    (/\ wrap.op = "get_property"
     /\ s_class.index_getter
     /\ IsNumeral(wrap.name)
     /\ wrap.native = "lookup") =>
        /\ wrap.exception = None
        /\ wrap.escaped = None
        /\ wrap.name \in NamesBelow(wrap.length) =>
              wrap.ret = Element(DigitValue(wrap.name[1]))
        /\ wrap.name \notin NamesBelow(wrap.length) => wrap.ret = Undefined

\* index 1 was read from a collection of one element
C10_Witness ==
    /\ wrap.op = "get_property"
    /\ s_class.index_getter
    /\ wrap.native = "lookup"
    /\ wrap.name = <<"1">>
    /\ wrap.length = 1
    /\ wrap.ret = Undefined

\* the names that are numerals of a valid index, and the names that are
\* integers no index can hold
IndexNames == { name \in Names : IsNumeral(name) /\ name # TooLargeName }
RangeErrorNames == { <<"-", "1">>, TooLargeName }

C12_ReadOnlyPropertyWrite ==
    [][(/\ wrap'.op = "write_property"
        /\ \E p \in s_class.properties : p.name = wrap'.name /\ ~p.setter) =>
           /\ wrap'.exception = "Cannot assign to read only property"
           /\ wrap'.about = wrap'.name
           /\ wrap'.ret = "false"
           /\ wrap'.called = {}
           /\ wrap'.escaped = None
           /\ js_object' = js_object]_vars

\* the property without a setter was written, and so was the one with a setter
C12_Witness ==
    /\ wrap.op = "write_property"
    /\ wrap.name = ReadOnlyName
    /\ wrap.ret = "false"
    /\ js_object.value = "written"

C14_ConstructionFailureSurfaces ==
    wrap.op = "construct" =>
        /\ ~s_class.constructor =>
              wrap.exception = "Illegal constructor" /\ wrap.instance = None
        /\ (s_class.constructor /\ wrap.native # "return") =>
              /\ wrap.exception # None
              /\ wrap.escaped = None
              /\ wrap.instance = "empty"

\* the first `length` indexes as names, in ascending order
NumericKeys(length) == [i \in 1..length |-> <<Digits[i]>>]

LeafToRoot(k) == [i \in 1..(k + 1) |-> i - 1]
IsPrefix(a, b) == Len(a) <= Len(b) /\ a = SubSeq(b, 1, Len(a))

\* C15: for an instance of a class with k superclasses the finalizers run
\* leaf to root, at most k+1 of them; the first one, which finds the private
\* pointer set, deletes the wrap with its native object and clears the
\* pointer in the same step, so the native object is deleted exactly once;
\* every later finalizer finds the pointer null and touches nothing.
C15_FinalizeOnce ==
    [][(js_object # NoObject /\ js_object'.finalized # js_object.finalized) =>
          /\ IsPrefix(js_object'.finalized, LeafToRoot(s_class.depth))
          /\ js_object'.private = Nullptr
          /\ js_object'.native = "deleted"
          /\ js_object'.deletes = 1
          /\ js_object.finalized = <<>> =>
                js_object.private = "wrap" /\ js_object.deletes = 0
          /\ js_object.finalized # <<>> =>
                js_object' = [js_object EXCEPT !.finalized = js_object'.finalized]]_vars

\* all three finalizers of a chain of depth two have run
C15_Witness ==
    /\ s_class.depth = 2
    /\ js_object.finalized = <<0, 1, 2>>
    /\ js_object.deletes = 1
    /\ js_object.private = Nullptr

\* the descriptor has a constructor, a static method or a static property
HasConstructorOrStatics ==
    s_class.constructor \/ s_class.static_methods \/ s_class.static_properties # {}

\* C17: a constructor class is made exactly for a descriptor with a
\* constructor, a static method or a static property. A descriptor with
\* static members only gets an object of that class, carrying its static
\* members, where a descriptor with none of the three gets the engine's
\* default constructor object; `new` on either yields no populated instance.
C17_ConstructorClass ==
    /\ js_class.constructor_class.made = "null" => ~HasConstructorOrStatics
    /\ js_class.constructor_class.made = "made" =>
          /\ HasConstructorOrStatics
          /\ js_class.constructor_class.staticFunctions = s_class.static_methods
          /\ { row.name : row \in js_class.constructor_class.staticValues }
                = { p.name : p \in s_class.static_properties }
    /\ wrap.op = "create_constructor" =>
          wrap.ret = IF HasConstructorOrStatics THEN "JSObjectMake"
                     ELSE "JSObjectMakeConstructor"
    /\ (wrap.op = "new" /\ ~s_class.constructor) =>
          /\ wrap.instance = None
          /\ wrap.exception # None

\* `new` was applied to the constructor object of a descriptor with static
\* members and no constructor
C17_Witness ==
    /\ wrap.op = "new"
    /\ ~s_class.constructor
    /\ s_class.static_methods
    /\ js_class.constructor_class.made = "made"
    /\ wrap.instance = None

\* a delivery is under way for the token
Delivering(t) == inflight[t] # <<>>

C19_DestroyedInstanceHasNoTokens ==
    js_object.native = "deleted" =>
        /\ m_notification_tokens = <<>>
        /\ subscribed = {}
        /\ last.op \notin BeginOps \cup {"after"}

\* an instance that had a registration was destroyed
C19_Witness ==
    /\ js_object.native = "deleted"
    /\ js_object.private = Nullptr
    /\ callbacks # <<>>
    /\ last.op = "finalize"

\* C20: remove_all_listeners() is idempotent: a call leaves a list that a
\* further call does not change and in which no token is left to
\* unsubscribe again; called on the list a previous call emptied, it changes
\* neither the list nor the subscriptions nor the protected references, and
\* raises no error.
C20_RemoveAllIdempotent ==
    [][last'.op = "remove_all_listeners" =>
          LET again == remove_all_listeners_pairs(m_notification_tokens')
          IN  /\ again = m_notification_tokens'
              /\ TokensOf(m_notification_tokens') \cap
                    (TokensOf(m_notification_tokens) \ TokensOf(m_notification_tokens')) = {}
              /\ unsubscribe(subscribed', TokensOf(m_notification_tokens') \ TokensOf(again))
                    = subscribed'
              /\ ~last'.threw
              /\ m_notification_tokens = <<>> =>
                    /\ m_notification_tokens' = m_notification_tokens
                    /\ subscribed' = subscribed
                    /\ protects' = protects]_vars

\* remove_all_listeners() ran on a list that was already empty after
\* registrations had been made
C20_Witness ==
    /\ last.op = "remove_all_listeners"
    /\ callbacks # <<>>
    /\ m_notification_tokens = <<>>
    /\ subscribed = {}
    /\ protects = NoProtects

\* the hook a delivery of the given kind invokes, as add_listener stored it
StoredHook(cb, op) ==
    IF cb.kind = "simple" THEN cb.protected_callback
    ELSE IF op = "before" THEN cb.before_fn
    ELSE IF op = "after" THEN cb.after_fn
    ELSE cb.error_fn

\* the member as add_listener takes it: the function, or none when undefined
Probed(value) == IF value = Undefined THEN Null ELSE value

\* C21: the protocol and the hooks are fixed when add_listener runs: a
\* function is registered as a simple callback, the hook object as a hook
\* registration holding the before/after/error it has at that moment; no later
\* step, in particular no change of the hook object's members, alters a
\* registration, and every delivery invokes the function stored for it.
C21_FixedAtRegistration ==
    [][/\ \A t \in 1..Len(callbacks) : callbacks'[t] = callbacks[t]
       /\ Len(callbacks') > Len(callbacks) =>
             LET cb == callbacks'[Len(callbacks')]
             IN  IF last'.arg \in Fns
                 THEN cb.kind = "simple" /\ cb.protected_callback = last'.arg
                 ELSE /\ cb.kind = "hook"
                      /\ cb.before_fn = Probed(members.before)
                      /\ cb.after_fn = Probed(members.after)
                      /\ cb.error_fn = Probed(members.error)
       /\ (last' # last /\ last'.op \in BeginOps \cup {"after"}) =>
             \A i \in 1..Len(last'.calls) :
                 last'.calls[i].fn = StoredHook(callbacks[last'.token], last'.op)]_vars

\* the hook object was registered with h.before, its before was then deleted
\* or replaced, and a later change still called h.before
C21_Witness ==
    /\ last.op = "before"
    /\ callbacks[last.token].kind = "hook"
    /\ members.before # "h.before"
    /\ last.run = <<"h.before">>

\* the argument passes add_listener's validation: a function, or the hook
\* object with every member it has being a function
PassesValidation(value) ==
    \/ value \in Fns
    \/ /\ value = HookObject
       /\ \A name \in {"before", "after", "error"} :
             members[name] = Undefined \/ members[name] \in HookFns

\* C22: add_listener is all-or-nothing. A call with a valid argument appends
\* exactly one (reference, token) pair at the end of the list and makes
\* exactly one new subscription; a call whose argument fails validation
\* raises and changes neither the list, the subscriptions nor the protected
\* references. The stored pairs are always as many as the live tokens.
C22_AddListenerAllOrNothing ==
    [][/\ Len(m_notification_tokens') = Cardinality(subscribed')
       /\ (last' # last /\ last'.op = "add_listener") =>
             IF PassesValidation(last'.arg)
             THEN /\ ~last'.threw
                  /\ last'.token \notin subscribed
                  /\ \A t \in 1..Len(callbacks) : t # last'.token
                  /\ m_notification_tokens' =
                        Append(m_notification_tokens,
                               [first |-> last'.arg, second |-> last'.token])
                  /\ subscribed' = subscribed \cup {last'.token}
                  /\ Len(callbacks') = Len(callbacks) + 1
             ELSE /\ last'.threw
                  /\ m_notification_tokens' = m_notification_tokens
                  /\ subscribed' = subscribed
                  /\ callbacks' = callbacks
                  /\ protects' = protects]_vars

\* with two registrations stored, add_listener was called with an object
\* whose before is not a function, and raised
C22_Witness ==
    /\ last.op = "add_listener"
    /\ last.threw
    /\ last.arg = BadObject
    /\ Len(m_notification_tokens) = 2
    /\ Cardinality(subscribed) = 2

====
